---- MODULE Spec2Model ----
(***************************************************************************)
(* Example Integration (custom_components/example_integration): the mock   *)
(* API client, the polling coordinator, the entity adapters, the config    *)
(* flow and the entry setup / unload, as state machines.                   *)
(*                                                                         *)
(* Three specifications share the variables:                               *)
(*   SpecApi  - one APIClient driven by an arbitrary sequence of calls;    *)
(*   Spec     - one config entry: setup, polling, adapters, unload;        *)
(*   SpecFlow - the config flow's user step against the entry registry.    *)
(***************************************************************************)
EXTENDS Integers, FiniteSets, Sequences, TLC

(***************************************************************************)
(* Bounds and input sets                                                   *)
(***************************************************************************)
\* number of distinct temperature readings the device can report
NumReadings == 2
\* cap on the number of fetch_device_data calls in flight on one client
MaxInFlight == 2
\* how many of the most recent API calls SpecApi remembers
MaxCalls == 2

Hosts == {"192.168.1.100", "10.0.0.2"}
ApiKeys == {"test_api_key", "other_key", "invalid"}
\* temperatures in tenths of a degree: 225 is 22.5
Temperatures == {225 + i : i \in 0..(NumReadings - 1)}
\* what the transport does during the awaited network delay
NetOutcomes == {"ok", "ConnectionError", "Exception"}

DOMAIN_ == "example_integration"
Kinds == {"temperature", "humidity", "battery"}

\* coordinator.data before the first refresh (Python None)
NoData == [none |-> TRUE]
\* no APIClient constructed yet
NoClient == [none |-> TRUE]

\* dict.get(key, default)
Get(d, k, default) == IF k \in DOMAIN d THEN d[k] ELSE default

(***************************************************************************)
(* api.py : APIClient                                                      *)
(***************************************************************************)
\* APIClient.__init__
NewClient(host) == [host |-> host, authenticated |-> FALSE]

\* authenticate that clears the flag when the key is rejected
authenticate_ClearsOnFailure(c, api_key, net) ==
    IF net # "ok" THEN [client |-> c, raised |-> net, value |-> FALSE]
    ELSE IF api_key = "invalid"
         THEN [client |-> [c EXCEPT !.authenticated = FALSE],
               raised |-> "AuthenticationError", value |-> FALSE]
         ELSE [client |-> [c EXCEPT !.authenticated = TRUE],
               raised |-> "none", value |-> TRUE]

\* APIClient.authenticate: the awaited network delay, then the key check,
\* then the flag.  net is the transport outcome of the delay (the documented
\* ConnectionError, or any other exception).
authenticate(c, api_key, net) ==
    IF net # "ok" THEN [client |-> c, raised |-> net, value |-> FALSE]
    ELSE IF api_key = "invalid"
         THEN [client |-> c, raised |-> "AuthenticationError", value |-> FALSE]
         ELSE [client |-> [c EXCEPT !.authenticated = TRUE],
               raised |-> "none", value |-> TRUE]

\* The dictionary the mock builds (random readings drawn from Temperatures).
MockReply(host, t) ==
    [device_id |-> "example_device_001",
     name      |-> "Example Device (" \o host \o ")",
     model     |-> "Example Model v1.0",
     firmware  |-> "1.2.3",
     online    |-> TRUE,
     sensors   |-> [temperature |-> t, humidity |-> 550, battery |-> 95],
     timestamp |-> "2026-02-07T12:00:00Z"]

\* Device data the tests feed through fetch_device_data: the sensor fixture,
\* the same with the device offline, the snapshot without readings, the
\* config-flow reply (no online, no sensors) and the empty dictionary.
InjectedReplies ==
    { [device_id |-> "test_device", name |-> "Test Device", model |-> "Test Model",
       firmware |-> "1.0.0", online |-> TRUE,
       sensors |-> [temperature |-> 225, humidity |-> 550, battery |-> 95]],
      [device_id |-> "test_device", name |-> "Test Device", model |-> "Test Model",
       firmware |-> "1.0.0", online |-> FALSE,
       sensors |-> [temperature |-> 225, humidity |-> 550, battery |-> 95]],
      [device_id |-> "test_device", name |-> "Test Device", online |-> TRUE,
       sensors |-> <<>>],
      [device_id |-> "test_device", name |-> "Test Device"],
      <<>> }

DeviceReplies(host) == {MockReply(host, t) : t \in Temperatures} \cup InjectedReplies

\* APIClient.fetch_device_data, first part: the check made before the await.
FetchAllowed(c) == c.authenticated

\* a fetch that hands out its dictionary before the readings are filled in
FetchSettle_Partial(net, reply) ==
    IF net # "ok" THEN [raised |-> net, value |-> NoData]
    ELSE [raised |-> "none",
          value |-> [k \in DOMAIN reply \ {"sensors"} |-> reply[k]]]

\* APIClient.fetch_device_data, second part: what the call yields once the
\* awaited network delay is over.  The flag is not read again.
FetchSettle(net, reply) ==
    IF net # "ok" THEN [raised |-> net, value |-> NoData]
    ELSE [raised |-> "none", value |-> reply]

\* APIClient.fetch_device_data as one call (no other task in between)
fetch_device_data(c, net, reply) ==
    IF ~FetchAllowed(c) THEN [raised |-> "AuthenticationError", value |-> NoData]
    ELSE FetchSettle(net, reply)

\* APIClient.set_device_state
set_device_state(c, state, net) ==
    IF ~c.authenticated THEN [raised |-> "AuthenticationError", value |-> FALSE]
    ELSE IF net # "ok" THEN [raised |-> net, value |-> FALSE]
    ELSE [raised |-> "none", value |-> TRUE]

\* close that leaves the flag as it was
close_KeepsFlag(c) == c

\* close that flips the flag instead of clearing it
close_Toggles(c) == [c EXCEPT !.authenticated = ~c.authenticated]

\* APIClient.close
close(c) == [c EXCEPT !.authenticated = FALSE]

(***************************************************************************)
(* coordinator.py : ExampleIntegrationCoordinator                          *)
(***************************************************************************)
\* _async_update_data with the catch-all handler ahead of the typed ones
UpdateData_CatchAllFirst(fetched) ==
    IF fetched.raised = "none" THEN [raised |-> "none", value |-> fetched.value]
    ELSE [raised |-> "UpdateFailed", value |-> NoData]

\* _async_update_data without the catch-all handler
UpdateData_NoCatchAll(fetched) ==
    CASE fetched.raised = "none" -> [raised |-> "none", value |-> fetched.value]
      [] fetched.raised = "AuthenticationError" ->
            [raised |-> "ConfigEntryAuthFailed", value |-> NoData]
      [] fetched.raised = "ConnectionError" ->
            [raised |-> "UpdateFailed", value |-> NoData]
      [] OTHER -> [raised |-> fetched.raised, value |-> NoData]

\* _async_update_data: returns the fetched data or maps the exception.
UpdateData(fetched) ==
    CASE fetched.raised = "none" -> [raised |-> "none", value |-> fetched.value]
      [] fetched.raised = "AuthenticationError" ->
            [raised |-> "ConfigEntryAuthFailed", value |-> NoData]
      [] fetched.raised = "ConnectionError" ->
            [raised |-> "UpdateFailed", value |-> NoData]
      [] OTHER -> [raised |-> "UpdateFailed", value |-> NoData]

\* Host refresh discipline (DataUpdateCoordinator): a successful update
\* replaces the snapshot; a failed one keeps it and marks the coordinator
\* unhealthy.
RefreshData(old, upd) == IF upd.raised = "none" THEN upd.value ELSE old
RefreshSuccess(upd) == upd.raised = "none"

\* always_update as the base class has it when the argument is left out
AlwaysUpdate_Default == TRUE

\* ExampleIntegrationCoordinator.__init__: always_update=False
AlwaysUpdate == FALSE

\* Host refresh discipline: whether a settled refresh may call the listeners.
\* Active -> Active: only when the content differs, unless always_update is
\* set.  For a refresh that enters or leaves Degraded nothing is stated, so
\* both outcomes are possible.
ListenerCalls(wasHealthy, isHealthy, old, new) ==
    IF wasHealthy /\ isHealthy THEN {AlwaysUpdate \/ old # new} ELSE BOOLEAN

\* a scheduler that fires on every period
SchedulerMayTrigger_Always(n) == TRUE

\* Host polling discipline: the next refresh is armed only when the previous
\* one has completed.
SchedulerMayTrigger(n) == n = 0

(***************************************************************************)
(* entity.py, sensor.py : adapters                                         *)
(***************************************************************************)
\* available with the device taken as online when the field is missing
available_DefaultOnline(h, d) == h /\ Get(d, "online", TRUE)

\* available that looks at the snapshot only
available_SnapshotOnly(h, d) == Get(d, "online", FALSE)

\* ExampleIntegrationEntity.available
available(h, d) == h /\ Get(d, "online", FALSE)

\* native_value copied from the temperature sensor without changing the key
native_value_WrongKey(d, kind) ==
    LET sensors == Get(d, "sensors", <<>>)
    IN  IF "temperature" \in DOMAIN sensors THEN {sensors["temperature"]} ELSE {}

\* Example*Sensor.native_value
native_value(d, kind) ==
    LET sensors == Get(d, "sensors", <<>>)
    IN  IF kind \in DOMAIN sensors THEN {sensors[kind]} ELSE {}

\* device_info with the firmware read from the model field
device_info_ModelForFirmware(device_id, d) ==
    [identifiers  |-> {<<DOMAIN_, device_id>>},
     name         |-> Get(d, "name", "Example Device"),
     manufacturer |-> "Example Manufacturer",
     model        |-> Get(d, "model", "Unknown Model"),
     sw_version   |-> Get(d, "model", "Unknown")]

\* ExampleIntegrationEntity.device_info
device_info(device_id, d) ==
    [identifiers  |-> {<<DOMAIN_, device_id>>},
     name         |-> Get(d, "name", "Example Device"),
     manufacturer |-> "Example Manufacturer",
     model        |-> Get(d, "model", "Unknown Model"),
     sw_version   |-> Get(d, "firmware", "Unknown")]

\* unique_id without the entity type
unique_id_NoKind(device_id, kind) == DOMAIN_ \o "_" \o device_id

\* ExampleIntegrationEntity.unique_id
unique_id(device_id, kind) == DOMAIN_ \o "_" \o device_id \o "_" \o kind

\* sensor.async_setup_entry: three adapters over the device id of the snapshot
SensorSetup(d) ==
    {[device_id |-> Get(d, "device_id", "unknown"), kind |-> k] : k \in Kinds}

(***************************************************************************)
(* State                                                                   *)
(***************************************************************************)
VARIABLES
    client,        \* the APIClient: [host, authenticated], or NoClient
    apiCalls,      \* SpecApi: the last MaxCalls calls made on the client, newest first
    authSince,     \* SpecApi: authenticate succeeded since construction / last close
    pc,            \* the config entry's position in setup / unload
    entry,         \* the config entry's data: [host, api_key]
    data,          \* coordinator.data
    healthy,       \* coordinator.last_update_success
    inflight,      \* fetch_device_data calls suspended in the network delay
    lastFetch,     \* how the last settled fetch ended ("ok" or what it raised)
    lastOutcome,   \* how the last settled refresh ended
    prevOutcome,   \* how the refresh before that one ended
    registry,      \* hass.data[DOMAIN] holds the coordinator
    adapters,      \* the sensor entities added by the platform
    setupResult,   \* what async_setup_entry / async_unload_entry last returned
    notified,      \* the last settled refresh called the coordinator's listeners
    entries,       \* SpecFlow: the config entries registered with the host
    flowUniqueId,  \* SpecFlow: the unique id set on the flow in progress ({} if none)
    flowResult,    \* SpecFlow: what the last async_step_user call returned
    flowTrace,     \* SpecFlow: the last submission: input, what the client calls
                   \* raised and how validation ended
    validation,    \* the _async_validate_input call in progress, or NoValidation
    scopedSession  \* the session of the last validation: "none", "open", "closed"

vars == <<client, apiCalls, authSince, pc, entry, data, healthy, inflight,
          lastFetch, lastOutcome, prevOutcome, registry, adapters, setupResult,
          notified, entries, flowUniqueId, flowResult, flowTrace, validation,
          scopedSession>>

apiVars == <<apiCalls, authSince>>
entryVars == <<pc, entry, data, healthy, inflight, lastFetch, lastOutcome,
               prevOutcome, registry, adapters, setupResult, notified>>
flowVars == <<entries, flowUniqueId, flowResult, flowTrace, validation, scopedSession>>

\* the newest call first, the oldest beyond MaxCalls forgotten
Logged(call, log) ==
    SubSeq(<<call>> \o log, 1, IF Len(log) < MaxCalls THEN Len(log) + 1 ELSE MaxCalls)
NoEntry == [none |-> TRUE]
\* no flow step has run / no submission has been made
NoResult == [type |-> "none"]
NoTrace == [validation |-> "not_run"]
\* no _async_validate_input call is suspended
NoValidation == [none |-> TRUE]

InitCommon ==
    /\ apiCalls = <<>>
    /\ authSince = FALSE
    /\ pc = "not_loaded"
    /\ entry = NoEntry
    /\ data = NoData
    /\ healthy = TRUE
    /\ inflight = 0
    /\ lastFetch = "none"
    /\ lastOutcome = "none"
    /\ prevOutcome = "none"
    /\ registry = FALSE
    /\ adapters = {}
    /\ setupResult = "none"
    /\ entries = {}
    /\ flowUniqueId = {}
    /\ flowResult = NoResult
    /\ flowTrace = NoTrace
    /\ notified = FALSE
    /\ validation = NoValidation
    /\ scopedSession = "none"

(***************************************************************************)
(* SpecApi: a client and the calls made on it, one after the other         *)
(***************************************************************************)
InitApi == InitCommon /\ \E h \in Hosts : client = NewClient(h)

ApiAuthenticate(api_key, net) ==
    LET r == authenticate(client, api_key, net)
    IN  /\ client' = r.client
        /\ apiCalls' = Logged([op |-> "authenticate", args |-> [api_key |-> api_key],
                               raised |-> r.raised, value |-> r.value], apiCalls)
        /\ authSince' = (authSince \/ r.raised = "none")
        /\ UNCHANGED <<entryVars, flowVars>>

ApiFetch(net, reply) ==
    LET r == fetch_device_data(client, net, reply)
    IN  /\ apiCalls' = Logged([op |-> "fetch_device_data", args |-> <<>>,
                               raised |-> r.raised, value |-> r.value], apiCalls)
        /\ UNCHANGED <<client, authSince>>
        /\ UNCHANGED <<entryVars, flowVars>>

ApiSetState(state, net) ==
    LET r == set_device_state(client, state, net)
    IN  /\ apiCalls' = Logged([op |-> "set_device_state", args |-> [state |-> state],
                               raised |-> r.raised, value |-> r.value], apiCalls)
        /\ UNCHANGED <<client, authSince>>
        /\ UNCHANGED <<entryVars, flowVars>>

ApiClose ==
    /\ client' = close(client)
    /\ apiCalls' = Logged([op |-> "close", args |-> <<>>,
                           raised |-> "none", value |-> FALSE], apiCalls)
    /\ authSince' = FALSE
    /\ UNCHANGED <<entryVars, flowVars>>

NextApi ==
    \/ \E k \in ApiKeys, net \in NetOutcomes : ApiAuthenticate(k, net)
    \/ \E net \in NetOutcomes, reply \in DeviceReplies(client.host) : ApiFetch(net, reply)
    \/ \E s \in BOOLEAN, net \in NetOutcomes : ApiSetState(s, net)
    \/ ApiClose

SpecApi == InitApi /\ [][NextApi]_vars

(***************************************************************************)
(* Spec: one config entry through setup, polling and unload                *)
(***************************************************************************)
ConfigEntries == [host : Hosts, api_key : ApiKeys]

Init == InitCommon /\ client = NoClient

\* what the entry's device can answer
EntryReplies == IF entry = NoEntry THEN {} ELSE DeviceReplies(entry.host)

\* "ok" for a call that returned, else the exception it raised
Ended(r) == IF r.raised = "none" THEN "ok" ELSE r.raised

\* One settled refresh: _async_update_data's result applied by the host.
Settle(fetched) ==
    LET upd == UpdateData(fetched)
    IN  /\ data' = RefreshData(data, upd)
        /\ healthy' = RefreshSuccess(upd)
        /\ lastFetch' = Ended(fetched)
        /\ lastOutcome' = Ended(upd)
        /\ prevOutcome' = lastOutcome
        /\ notified' \in ListenerCalls(healthy, RefreshSuccess(upd), data,
                                       RefreshData(data, upd))

\* async_setup_entry up to its first await: the client is built and
\* authenticate is suspended in its network delay.
SetupStart(e) ==
    /\ pc \in {"not_loaded", "setup_failed", "unloaded"}
    /\ inflight = 0
    /\ entry' = e
    /\ client' = NewClient(e.host)
    /\ pc' = "authenticating"
    /\ data' = NoData
    /\ healthy' = TRUE
    /\ lastFetch' = "none"
    /\ lastOutcome' = "none"
    /\ prevOutcome' = "none"
    /\ setupResult' = "none"
    /\ notified' = FALSE
    /\ UNCHANGED <<inflight, registry, adapters, apiVars, flowVars>>

\* authenticate settles.  On any exception setup returns False; otherwise the
\* coordinator is built and the first refresh calls fetch_device_data, which
\* passes its check and suspends in the network delay.
SetupAuthenticated(net) ==
    /\ pc = "authenticating"
    /\ LET r == authenticate(client, entry.api_key, net)
       IN  /\ client' = r.client
           /\ IF r.raised # "none"
              THEN /\ pc' = "setup_failed"
                   /\ setupResult' = "False"
                   /\ UNCHANGED <<inflight, healthy, lastFetch, lastOutcome, prevOutcome, data,
                               notified>>
              ELSE IF FetchAllowed(r.client)
              THEN /\ pc' = "first_refresh"
                   /\ inflight' = inflight + 1
                   /\ UNCHANGED <<setupResult, healthy, lastFetch, lastOutcome, prevOutcome,
                               data, notified>>
              ELSE /\ Settle([raised |-> "AuthenticationError", value |-> NoData])
                   /\ pc' = "setup_failed"
                   /\ setupResult' = "ConfigEntryAuthFailed"
                   /\ UNCHANGED inflight
    /\ UNCHANGED <<entry, registry, adapters, apiVars, flowVars>>

\* setup with a plain refresh, which records a failure and carries on
FirstRefreshSettles_PlainRefresh(net, reply) ==
    /\ pc = "first_refresh"
    /\ inflight > 0
    /\ inflight' = inflight - 1
    /\ Settle(FetchSettle(net, reply))
    /\ registry' = TRUE
    /\ pc' = "forwarding"
    /\ UNCHANGED <<setupResult, client, entry, adapters, apiVars, flowVars>>

\* The first refresh settles.  A failure leaves async_setup_entry by an
\* exception; a success stores the coordinator in hass.data and suspends in
\* the forward to the sensor platform.
FirstRefreshSettles(net, reply) ==
    /\ pc = "first_refresh"
    /\ inflight > 0
    /\ inflight' = inflight - 1
    /\ LET fetched == FetchSettle(net, reply)
           upd == UpdateData(fetched)
       IN  /\ Settle(fetched)
           /\ IF upd.raised = "none"
              THEN /\ registry' = TRUE
                   /\ pc' = "forwarding"
                   /\ UNCHANGED setupResult
              ELSE /\ pc' = "setup_failed"
                   /\ setupResult' = IF upd.raised = "ConfigEntryAuthFailed"
                                     THEN "ConfigEntryAuthFailed"
                                     ELSE "ConfigEntryNotReady"
                   /\ UNCHANGED registry
    /\ UNCHANGED <<client, entry, adapters, apiVars, flowVars>>

\* setup that forwards to the platform before anything was stored
SetupForwarded_BeforeRefresh ==
    /\ pc \in {"first_refresh", "forwarding"}
    /\ adapters' = SensorSetup(data)
    /\ pc' = "loaded"
    /\ setupResult' = "True"
    /\ UNCHANGED <<client, entry, data, healthy, inflight, lastFetch, lastOutcome,
                   prevOutcome, registry, notified, apiVars, flowVars>>

\* The sensor platform is set up and async_setup_entry returns True.
SetupForwarded ==
    /\ pc = "forwarding"
    /\ adapters' = SensorSetup(data)
    /\ pc' = "loaded"
    /\ setupResult' = "True"
    /\ UNCHANGED <<client, entry, data, healthy, inflight, lastFetch, lastOutcome,
                   prevOutcome, registry, notified, apiVars, flowVars>>

\* polling that is not armed again after a failed refresh
PollStart_StopsAfterFailure ==
    /\ pc \in {"loaded", "unloading", "unloaded"}
    /\ healthy
    /\ SchedulerMayTrigger(inflight)
    /\ inflight < MaxInFlight
    /\ IF FetchAllowed(client)
       THEN /\ inflight' = inflight + 1
            /\ UNCHANGED <<data, healthy, lastFetch, lastOutcome, prevOutcome, notified>>
       ELSE /\ Settle([raised |-> "AuthenticationError", value |-> NoData])
            /\ UNCHANGED inflight
    /\ UNCHANGED <<client, pc, entry, registry, adapters, setupResult, apiVars, flowVars>>

\* A refresh of the coordinator begins: fetch_device_data either fails its
\* check at once or suspends in the network delay.
PollStart ==
    /\ pc \in {"loaded", "unloading", "unloaded"}
    /\ SchedulerMayTrigger(inflight)
    /\ inflight < MaxInFlight
    /\ IF FetchAllowed(client)
       THEN /\ inflight' = inflight + 1
            /\ UNCHANGED <<data, healthy, lastFetch, lastOutcome, prevOutcome, notified>>
       ELSE /\ Settle([raised |-> "AuthenticationError", value |-> NoData])
            /\ UNCHANGED inflight
    /\ UNCHANGED <<client, pc, entry, registry, adapters, setupResult, apiVars, flowVars>>

\* a refresh after which the adapters take their device id from the new
\* snapshot
PollSettles_RebuildsAdapters(net, reply) ==
    /\ pc \in {"loaded", "unloading", "unloaded"}
    /\ inflight > 0
    /\ inflight' = inflight - 1
    /\ Settle(FetchSettle(net, reply))
    /\ adapters' = IF adapters = {} THEN {} ELSE SensorSetup(data')
    /\ UNCHANGED <<client, pc, entry, registry, setupResult, apiVars, flowVars>>

\* A suspended fetch of a refresh settles and the host applies the result.
PollSettles(net, reply) ==
    /\ pc \in {"loaded", "unloading", "unloaded"}
    /\ inflight > 0
    /\ inflight' = inflight - 1
    /\ Settle(FetchSettle(net, reply))
    /\ UNCHANGED <<client, pc, entry, registry, adapters, setupResult, apiVars, flowVars>>

\* async_unload_entry up to its await of the platform unload.
UnloadStart ==
    /\ pc = "loaded"
    /\ pc' = "unloading"
    /\ UNCHANGED <<client, entry, data, healthy, inflight, lastFetch, lastOutcome,
                   prevOutcome, registry, adapters, setupResult, notified, apiVars,
                   flowVars>>

\* async_unload_entry that closes the client whatever the platform unload
\* returned
UnloadSettles_AlwaysCloses(unload_ok) ==
    /\ pc = "unloading"
    /\ client' = close(client)
    /\ IF unload_ok
       THEN /\ adapters' = {}
            /\ registry' = FALSE
            /\ pc' = "unloaded"
            /\ setupResult' = "unloaded"
       ELSE /\ pc' = "loaded"
            /\ setupResult' = "unload_failed"
            /\ UNCHANGED <<adapters, registry>>
    /\ UNCHANGED <<entry, data, healthy, inflight, lastFetch, lastOutcome, prevOutcome,
                   notified, apiVars, flowVars>>

\* The platform unload settles; when it succeeded the coordinator is popped
\* from hass.data and its client closed, and unload_ok is returned.
UnloadSettles(unload_ok) ==
    /\ pc = "unloading"
    /\ IF unload_ok
       THEN /\ adapters' = {}
            /\ registry' = FALSE
            /\ client' = close(client)
            /\ pc' = "unloaded"
            /\ setupResult' = "unloaded"
       ELSE /\ pc' = "loaded"
            /\ setupResult' = "unload_failed"
            /\ UNCHANGED <<adapters, registry, client>>
    /\ UNCHANGED <<entry, data, healthy, inflight, lastFetch, lastOutcome, prevOutcome,
                   notified, apiVars, flowVars>>

Next ==
    \/ \E e \in ConfigEntries : SetupStart(e)
    \/ \E net \in NetOutcomes : SetupAuthenticated(net)
    \/ \E net \in NetOutcomes, reply \in EntryReplies :
          FirstRefreshSettles(net, reply)
    \/ SetupForwarded
    \/ PollStart
    \/ \E net \in NetOutcomes, reply \in EntryReplies :
          PollSettles(net, reply)
    \/ UnloadStart
    \/ \E ok \in BOOLEAN : UnloadSettles(ok)

Spec == Init /\ [][Next]_vars

(***************************************************************************)
(* config_flow.py : ExampleIntegrationConfigFlow                           *)
(***************************************************************************)
UserInputs == [host : Hosts, api_key : ApiKeys]

\* authenticate's exception mapped with InvalidAuth for CannotConnect
MapAuthError_Swapped(exc) ==
    CASE exc = "AuthenticationError" -> "CannotConnect"
      [] exc = "ConnectionError" -> "InvalidAuth"
      [] OTHER -> exc

\* The handlers around authenticate: what leaves the inner try for what
\* authenticate raised.
MapAuthError(exc) ==
    CASE exc = "AuthenticationError" -> "InvalidAuth"
      [] exc = "ConnectionError" -> "CannotConnect"
      [] OTHER -> exc

\* fetch_device_data wrapped in the handlers written for authenticate
MapFetchError_AuthMapped(exc) ==
    CASE exc = "AuthenticationError" -> "InvalidAuth"
      [] exc = "ConnectionError" -> "CannotConnect"
      [] OTHER -> exc

\* The handler around fetch_device_data.
MapFetchError(exc) ==
    CASE exc = "ConnectionError" -> "CannotConnect"
      [] OTHER -> exc

\* _async_validate_input, the body of the outer try: authenticate, then
\* fetch_device_data, then the title and device id read from the data.
ValidateBody(user_input, netAuth, netFetch, reply) ==
    LET host == user_input.host
        auth == authenticate(NewClient(host), user_input.api_key, netAuth)
        fetched == fetch_device_data(auth.client, netFetch, reply)
    IN  IF auth.raised # "none"
        THEN [raised |-> MapAuthError(auth.raised), info |-> <<>>,
              auth |-> Ended(auth), fetch |-> "not_called"]
        ELSE IF fetched.raised # "none"
        THEN [raised |-> MapFetchError(fetched.raised), info |-> <<>>,
              auth |-> Ended(auth), fetch |-> Ended(fetched)]
        ELSE [raised |-> "none",
              info |-> [title |-> Get(fetched.value, "name", "Device at " \o host),
                        device_id |-> Get(fetched.value, "device_id", "unknown")],
              auth |-> Ended(auth), fetch |-> Ended(fetched)]

\* _async_validate_input with the session closed at the end of the try body
\* instead of in a finally clause
ValidateInput_CloseAtEnd(user_input, netAuth, netFetch, reply) ==
    LET body == ValidateBody(user_input, netAuth, netFetch, reply)
    IN  [session |-> IF body.raised = "none" THEN "closed" ELSE "open"] @@ body

\* _async_validate_input: the body, and the finally clause that closes the
\* session the validator opened.
ValidateInput(user_input, netAuth, netFetch, reply) ==
    [session |-> "closed"] @@ ValidateBody(user_input, netAuth, netFetch, reply)

\* Host flow base class: a config entry with this unique id exists.
UniqueIdConfigured(es, uid) == \E e \in es : e.unique_id = uid

ShowForm(errors) == [type |-> "form", step_id |-> "user", errors |-> errors]

\* the handlers of async_step_user with the last one reporting cannot_connect
ErrorCode_NoUnknown(exc) ==
    CASE exc = "InvalidAuth" -> "invalid_auth"
      [] OTHER -> "cannot_connect"

\* The handlers of async_step_user: the form error for what validation raised.
ErrorCode(exc) ==
    CASE exc = "CannotConnect" -> "cannot_connect"
      [] exc = "InvalidAuth" -> "invalid_auth"
      [] OTHER -> "unknown"

\* async_step_user storing the entry with the api_key replaced
StepUser_StoresOtherKey(es, uid, user_input, netAuth, netFetch, reply) ==
    LET v == ValidateInput(user_input, netAuth, netFetch, reply)
        stored == [user_input EXCEPT !.api_key = "other_key"]
    IN  IF v.raised # "none"
        THEN [result |-> ShowForm([base |-> ErrorCode(v.raised)]),
              entries |-> es, unique_id |-> uid, validation |-> v]
        ELSE IF UniqueIdConfigured(es, v.info.device_id)
        THEN [result |-> [type |-> "abort", reason |-> "already_configured"],
              entries |-> es, unique_id |-> {v.info.device_id}, validation |-> v]
        ELSE [result |-> [type |-> "create_entry", title |-> v.info.title,
                          data |-> stored],
              entries |-> es \cup {[unique_id |-> v.info.device_id,
                                     title |-> v.info.title,
                                     data |-> stored]},
              unique_id |-> {v.info.device_id}, validation |-> v]

\* async_step_user creating the entry without the already-configured check
StepUser_NoAbortCheck(es, uid, user_input, netAuth, netFetch, reply) ==
    LET v == ValidateInput(user_input, netAuth, netFetch, reply)
    IN  IF v.raised # "none"
        THEN [result |-> ShowForm([base |-> ErrorCode(v.raised)]),
              entries |-> es, unique_id |-> uid, validation |-> v]
        ELSE [result |-> [type |-> "create_entry", title |-> v.info.title,
                          data |-> user_input],
              entries |-> es \cup {[unique_id |-> v.info.device_id,
                                     title |-> v.info.title,
                                     data |-> user_input]},
              unique_id |-> {v.info.device_id}, validation |-> v]

\* async_step_user.  Yields the flow result, the entry registry and the
\* flow's unique id after the step.
StepUser(es, uid, user_input, netAuth, netFetch, reply) ==
    LET v == ValidateInput(user_input, netAuth, netFetch, reply)
    IN  IF v.raised # "none"
        THEN [result |-> ShowForm([base |-> ErrorCode(v.raised)]),
              entries |-> es, unique_id |-> uid, validation |-> v]
        ELSE IF UniqueIdConfigured(es, v.info.device_id)
        THEN [result |-> [type |-> "abort", reason |-> "already_configured"],
              entries |-> es, unique_id |-> {v.info.device_id}, validation |-> v]
        ELSE [result |-> [type |-> "create_entry", title |-> v.info.title,
                          data |-> user_input],
              entries |-> es \cup {[unique_id |-> v.info.device_id,
                                     title |-> v.info.title,
                                     data |-> user_input]},
              unique_id |-> {v.info.device_id}, validation |-> v]

(***************************************************************************)
(* SpecFlow: user flows, one at a time, against the entry registry         *)
(***************************************************************************)
InitFlow == InitCommon /\ client = NoClient

\* async_step_user(None): a new flow shows the empty form.
FlowInit ==
    /\ flowResult.type # "form"
    /\ flowResult' = ShowForm(<<>>)
    /\ flowUniqueId' = {}
    /\ flowTrace' = NoTrace
    /\ UNCHANGED <<entries, validation, scopedSession, client, apiVars, entryVars>>

\* async_step_user returns r for user_input: the flow and the entry registry
\* take its result, and the validator has left its session behind.
FlowSettle(r, user_input, netAuth) ==
    /\ flowResult' = r.result
    /\ entries' = r.entries
    /\ flowUniqueId' = r.unique_id
    /\ flowTrace' = [validation |-> Ended(r.validation),
                     input |-> user_input,
                     netAuth |-> netAuth,
                     auth |-> r.validation.auth,
                     fetch |-> r.validation.fetch,
                     session |-> r.validation.session,
                     device_id |-> Get(r.validation.info, "device_id", "")]
    /\ scopedSession' = r.validation.session
    /\ validation' = NoValidation

\* async_step_user(user_input): the form of the flow in progress is submitted.
FlowSubmit(user_input, netAuth, netFetch, reply) ==
    /\ flowResult.type = "form"
    /\ validation = NoValidation
    /\ \E r \in {StepUser(entries, flowUniqueId, user_input, netAuth, netFetch, reply)} :
           FlowSettle(r, user_input, netAuth)
    /\ UNCHANGED <<client, apiVars, entryVars>>

\* How the validator's fetch_device_data can end: the transport outcomes, and
\* the AuthenticationError the call is documented to raise.
FetchOutcomes == NetOutcomes \cup {"AuthenticationError"}

NextFlow ==
    \/ FlowInit
    \/ \E u \in UserInputs, netAuth \in NetOutcomes, netFetch \in FetchOutcomes :
          \E reply \in DeviceReplies(u.host) : FlowSubmit(u, netAuth, netFetch, reply)

SpecFlow == InitFlow /\ [][NextFlow]_vars

(***************************************************************************)
(* SpecHost: a user flow, step by step, beside the entries it has created  *)
(***************************************************************************)
InitHost == InitCommon /\ client = NoClient

\* async_step_user(user_input) up to the first await of _async_validate_input:
\* the validator has opened its own session, built its client and is
\* suspended in authenticate.
ValidateStart(user_input) ==
    /\ flowResult.type = "form"
    /\ validation = NoValidation
    /\ validation' = [input |-> user_input, stage |-> "authenticate",
                      client |-> NewClient(user_input.host), netAuth |-> "none"]
    /\ scopedSession' = "open"
    /\ UNCHANGED <<entries, flowUniqueId, flowResult, flowTrace, client, apiVars,
                   entryVars>>

\* The validator's authenticate settles: on an exception the step ends,
\* otherwise fetch_device_data passes its check and suspends.
ValidateAuthenticated(net) ==
    /\ validation # NoValidation
    /\ validation.stage = "authenticate"
    /\ LET r == authenticate(validation.client, validation.input.api_key, net)
       IN  IF r.raised = "none" /\ FetchAllowed(r.client)
           THEN /\ validation' = [validation EXCEPT !.stage = "fetch",
                                                    !.client = r.client,
                                                    !.netAuth = net]
                /\ UNCHANGED <<entries, flowUniqueId, flowResult, flowTrace, scopedSession>>
           ELSE \E s \in {StepUser(entries, flowUniqueId, validation.input, net, "ok", <<>>)} :
                    FlowSettle(s, validation.input, net)
    /\ UNCHANGED <<client, apiVars, entryVars>>

\* The validator's fetch_device_data settles and the step ends.
ValidateFetched(netFetch, reply) ==
    /\ validation # NoValidation
    /\ validation.stage = "fetch"
    /\ \E s \in {StepUser(entries, flowUniqueId, validation.input, validation.netAuth,
                           netFetch, reply)} :
           FlowSettle(s, validation.input, validation.netAuth)
    /\ UNCHANGED <<client, apiVars, entryVars>>

\* what the form is submitted with, and what the devices answer
HostInputs == {u \in UserInputs : u.api_key # "other_key"}
HostReplies(host) == {MockReply(host, t) : t \in Temperatures}
ValidationReplies == IF validation = NoValidation THEN {}
                     ELSE HostReplies(validation.input.host)
LoadedReplies == IF entry = NoEntry THEN {} ELSE HostReplies(entry.host)

NextHost ==
    \/ FlowInit
    \/ \E u \in HostInputs : ValidateStart(u)
    \/ \E net \in NetOutcomes : ValidateAuthenticated(net)
    \/ \E net \in NetOutcomes, reply \in ValidationReplies : ValidateFetched(net, reply)
    \/ \E x \in entries : SetupStart(x.data)
    \/ \E net \in NetOutcomes : SetupAuthenticated(net)
    \/ \E net \in NetOutcomes, reply \in LoadedReplies : FirstRefreshSettles(net, reply)
    \/ SetupForwarded
    \/ PollStart
    \/ \E net \in NetOutcomes, reply \in LoadedReplies : PollSettles(net, reply)
    \/ UnloadStart
    \/ \E ok \in BOOLEAN : UnloadSettles(ok)

SpecHost == InitHost /\ [][NextHost]_vars

(***************************************************************************)
(* Properties                                                              *)
(***************************************************************************)
DataOps == {"fetch_device_data", "set_device_state"}

\* C1: a data operation called when no authenticate has succeeded since the
\* client was built or last closed raises AuthenticationError and returns no
\* data; a data operation that succeeds was preceded by such an authenticate.
C1_DataOpsNeedAuthentication ==
    (apiCalls # <<>> /\ apiCalls[1].op \in DataOps) =>
        /\ ~authSince => /\ apiCalls[1].raised = "AuthenticationError"
                         /\ apiCalls[1].op = "fetch_device_data"
                               => apiCalls[1].value = NoData
                         /\ apiCalls[1].op = "set_device_state"
                               => apiCalls[1].value = FALSE
        /\ apiCalls[1].raised = "none" => authSince

C1_Witness ==
    /\ Len(apiCalls) = 2
    /\ apiCalls[2].op = "close"
    /\ apiCalls[1].op = "fetch_device_data"
    /\ apiCalls[1].raised = "AuthenticationError"

\* C2: a refresh whose fetch raised AuthenticationError ends as
\* ConfigEntryAuthFailed, never as UpdateFailed.
C2_AuthErrorIsAuthFailed ==
    lastFetch = "AuthenticationError" =>
        /\ lastOutcome = "ConfigEntryAuthFailed"
        /\ lastOutcome # "UpdateFailed"

C2_Witness ==
    /\ lastFetch = "AuthenticationError"
    /\ lastOutcome = "ConfigEntryAuthFailed"
    /\ prevOutcome = "UpdateFailed"

\* a fetch has just settled
FetchSettled == inflight' = inflight - 1

\* C3: a refresh whose fetch raised ConnectionError or any exception other
\* than AuthenticationError ends as UpdateFailed, the coordinator is unhealthy
\* and the snapshot stored before is still the stored snapshot.
C3_TransientFailureKeepsSnapshot ==
    [][(FetchSettled /\ lastFetch' \notin {"ok", "AuthenticationError"}) =>
          /\ lastOutcome' = "UpdateFailed"
          /\ ~healthy'
          /\ data' = data]_vars

C3_Witness ==
    /\ lastFetch = "Exception"
    /\ lastOutcome = "UpdateFailed"
    /\ prevOutcome = "ok"
    /\ data \in EntryReplies

\* C4: an adapter is available exactly when the last refresh succeeded and
\* the snapshot has an online field that is true.
C4_AvailableIffHealthyAndOnline ==
    adapters # {} =>
        (available(healthy, data) <=>
            (lastOutcome = "ok" /\ "online" \in DOMAIN data /\ data.online = TRUE))

C4_Witness ==
    /\ adapters # {}
    /\ lastOutcome = "UpdateFailed"
    /\ Get(data, "online", FALSE) = TRUE
    /\ ~available(healthy, data)

\* C5: close() never takes effect on the client while one of its fetches is
\* in flight.
C5_CloseWaitsForFetch ==
    inflight > 0 => client.authenticated

\* C6: with a snapshot stored by a successful refresh that has online true
\* and a temperature v, the adapter reports v and is available; when the next
\* fetch raises ConnectionError the adapter still reports v and is unavailable.
C6_StaleValueUnavailable ==
    /\ [](( /\ adapters # {}
            /\ lastOutcome = "ok"
            /\ Get(data, "online", FALSE) = TRUE
            /\ native_value(data, "temperature") # {})
          => available(healthy, data))
    /\ [][( /\ adapters # {}
            /\ lastOutcome = "ok"
            /\ Get(data, "online", FALSE) = TRUE
            /\ native_value(data, "temperature") # {}
            /\ FetchSettled
            /\ lastFetch' = "ConnectionError")
          => /\ native_value(data', "temperature") = native_value(data, "temperature")
             /\ ~available(healthy', data')]_vars

C6_Witness ==
    /\ adapters # {}
    /\ prevOutcome = "ok"
    /\ lastFetch = "ConnectionError"
    /\ Get(data, "online", FALSE) = TRUE
    /\ native_value(data, "temperature") = {225}
    /\ ~available(healthy, data)

\* C7: at most one fetch_device_data call of the coordinator is in flight.
C7_OneFetchInFlight == inflight <= 1

C7_Witness ==
    /\ pc = "loaded"
    /\ inflight = 1
    /\ ~ENABLED PollStart

\* the step just taken was a submission of the form
Submitted == flowTrace'.validation # "not_run" /\ flowResult.type = "form"

FormError(code) == flowResult.type = "form" /\ flowResult.errors = [base |-> code]

\* C8: a submission whose authenticate raised AuthenticationError - as it
\* does for the key "invalid" once the device answers - re-shows the form
\* with invalid_auth, not cannot_connect; one whose authenticate or fetch
\* raised ConnectionError re-shows it with cannot_connect.
C8_AuthErrorIsInvalidAuth ==
    flowTrace.validation # "not_run" =>
        /\ flowTrace.auth = "AuthenticationError" =>
              FormError("invalid_auth") /\ ~FormError("cannot_connect")
        /\ (flowTrace.input.api_key = "invalid" /\ flowTrace.netAuth = "ok") =>
              flowTrace.auth = "AuthenticationError"
        /\ (flowTrace.auth = "ConnectionError" \/ flowTrace.fetch = "ConnectionError") =>
              FormError("cannot_connect")

C8_Witness ==
    /\ flowTrace.validation = "InvalidAuth"
    /\ flowTrace.input.api_key = "invalid"
    /\ FormError("invalid_auth")

\* C9: a submission whose validation failed leaves the entry registry and the
\* flow's unique id as they were and re-shows the form with exactly one error,
\* cannot_connect, invalid_auth or unknown; unknown for every exception other
\* than CannotConnect and InvalidAuth.
C9_FailedValidationRegistersNothing ==
    [][(Submitted /\ flowTrace'.validation # "ok") =>
          /\ entries' = entries
          /\ flowUniqueId' = flowUniqueId
          /\ flowResult'.type = "form"
          /\ DOMAIN flowResult'.errors = {"base"}
          /\ flowResult'.errors.base \in {"cannot_connect", "invalid_auth", "unknown"}
          /\ flowTrace'.validation \notin {"CannotConnect", "InvalidAuth"}
                => flowResult'.errors.base = "unknown"]_vars

C9_Witness ==
    /\ flowTrace.validation = "Exception"
    /\ FormError("unknown")
    /\ entries # {}
    /\ flowUniqueId = {}

\* C10: no two config entries have the same device id; a submission that
\* validates with a device id already registered aborts as already_configured
\* and creates no entry, whatever its host and api_key.
C10_OneEntryPerDevice ==
    /\ [](\A e1, e2 \in entries : e1.unique_id = e2.unique_id => e1 = e2)
    /\ [][(Submitted /\ flowTrace'.validation = "ok"
              /\ UniqueIdConfigured(entries, flowTrace'.device_id)) =>
            /\ flowResult' = [type |-> "abort", reason |-> "already_configured"]
            /\ entries' = entries]_vars

C10_Witness ==
    /\ flowResult = [type |-> "abort", reason |-> "already_configured"]
    /\ \E e \in entries :
          /\ e.unique_id = flowTrace.device_id
          /\ e.data.host # flowTrace.input.host
          /\ e.data.api_key # flowTrace.input.api_key

\* C11: whenever _async_validate_input is not running, the session it opened
\* is closed: however the last validation ended - info returned, InvalidAuth,
\* CannotConnect or any other exception - it closed its session first.
C11_ValidatorClosesSession ==
    /\ validation = NoValidation => scopedSession # "open"
    /\ flowTrace.validation # "not_run" =>
          /\ flowTrace.validation \in {"ok", "InvalidAuth", "CannotConnect",
                                      "Exception", "AuthenticationError"}
          /\ flowTrace.session = "closed"
          /\ scopedSession = "closed" \/ validation # NoValidation

C11_Witness ==
    /\ validation = NoValidation
    /\ flowTrace.validation = "Exception"
    /\ flowTrace.auth = "ok"
    /\ flowTrace.fetch = "Exception"
    /\ scopedSession = "closed"

\* C12: setup reports success only after authenticate and the first refresh
\* both succeeded; when either failed the coordinator is not in hass.data, no
\* platform was forwarded and the result is not success; setup never
\* registers a coordinator that is Degraded.
C12_SetupNeedsFirstRefresh ==
    /\ [](pc = "setup_failed" =>
            /\ ~registry
            /\ adapters = {}
            /\ setupResult \in {"False", "ConfigEntryAuthFailed", "ConfigEntryNotReady"}
            /\ (~client.authenticated \/ lastOutcome # "ok"))
    /\ [][(~registry /\ registry') =>
            /\ client'.authenticated
            /\ healthy' /\ lastOutcome' = "ok"
            /\ data' \in EntryReplies]_vars
    /\ [][(setupResult # "True" /\ setupResult' = "True") =>
            /\ registry' /\ client'.authenticated
            /\ healthy' /\ lastOutcome' = "ok"
            /\ adapters' # {}]_vars

C12_Witness ==
    /\ pc = "setup_failed"
    /\ client.authenticated
    /\ lastFetch = "ConnectionError"
    /\ setupResult = "ConfigEntryNotReady"
    /\ ~registry
    /\ adapters = {}

\* C13: once async_unload_entry has returned true the client's flag is false,
\* the coordinator is out of hass.data, and the stored snapshot never changes
\* again until a new setup.
C13_ClosedStoresNothing ==
    /\ [](pc = "unloaded" => ~client.authenticated /\ ~registry)
    /\ [][(pc = "unloaded" /\ pc' = "unloaded") => data' = data]_vars

\* C14: each adapter's value is the reading sensors[kind] of the current
\* snapshot, and no value when the kind or the sensors mapping is missing.
C14_ValueIsSnapshotReading ==
    \A a \in adapters :
        IF "sensors" \in DOMAIN data /\ a.kind \in DOMAIN data.sensors
        THEN native_value(data, a.kind) = {data.sensors[a.kind]}
        ELSE native_value(data, a.kind) = {}

C14_Witness ==
    /\ Cardinality(adapters) = 3
    /\ prevOutcome = "ok"
    /\ lastOutcome = "ok"
    /\ "sensors" \in DOMAIN data
    /\ native_value(data, "humidity") = {550}
    /\ native_value(data, "temperature") = {226}

C16_PollingRetriesAfterFailure ==
    /\ []((pc = "loaded" /\ lastOutcome = "UpdateFailed" /\ inflight = 0) =>
            ENABLED PollStart)
    /\ [][\A reply \in EntryReplies :
            (pc = "loaded" /\ lastOutcome = "UpdateFailed" /\ PollSettles("ok", reply)) =>
                /\ healthy'
                /\ lastOutcome' = "ok"
                /\ data' = reply]_vars

C16_Witness ==
    /\ pc = "loaded"
    /\ prevOutcome = "UpdateFailed"
    /\ lastOutcome = "ok"
    /\ healthy
    /\ data \in EntryReplies

\* the sessions to the device at host that are open: the one of the
\* integration instance, from the construction of its client until teardown,
\* and the one of a validation in progress
IntegrationSessions(host) ==
    IF /\ entry # NoEntry
       /\ entry.host = host
       /\ pc \in {"authenticating", "first_refresh", "forwarding", "loaded", "unloading"}
    THEN 1 ELSE 0

ValidatorSessions(host) ==
    IF validation # NoValidation /\ validation.input.host = host /\ scopedSession = "open"
    THEN 1 ELSE 0

\* C17: for every device there is at most one open session at any time,
\* counting the integration instance and a validation in progress.
C17_OneLiveSessionPerDevice ==
    \A host \in Hosts : IntegrationSessions(host) + ValidatorSessions(host) <= 1

\* C18: the unique id of an adapter is example_integration_{device_id}_{kind},
\* and the adapters of one device have pairwise different unique ids.
C18_UniqueIdPerKind ==
    /\ \A a \in adapters :
          unique_id(a.device_id, a.kind) =
              "example_integration_" \o a.device_id \o "_" \o a.kind
    /\ \A a, b \in adapters :
          (a.device_id = b.device_id /\ a.kind # b.kind) =>
              unique_id(a.device_id, a.kind) # unique_id(b.device_id, b.kind)

C18_Witness ==
    /\ Cardinality(adapters) = 3
    /\ \E a \in adapters :
          unique_id(a.device_id, a.kind) = "example_integration_test_device_battery"

\* C19: whenever it is read - also while a fetch is suspended - the stored
\* snapshot is either empty (nothing fetched yet) or one whole reply of the
\* client, never a part of one.
C19_SnapshotIsWholeReply ==
    data = NoData \/ data \in EntryReplies

C19_Witness ==
    /\ pc = "loaded"
    /\ inflight = 1
    /\ prevOutcome = "ok"
    /\ lastOutcome = "ok"
    /\ data \in EntryReplies
    /\ "sensors" \in DOMAIN data

\* C20: after close the flag is false whatever it was before, the call has
\* not raised, and closing again changes nothing.
C20_CloseIdempotent ==
    (apiCalls # <<>> /\ apiCalls[1].op = "close") =>
        /\ ~client.authenticated
        /\ apiCalls[1].raised = "none"
        /\ close(client) = client

C20_Witness ==
    /\ Len(apiCalls) = 2
    /\ apiCalls[1].op = "close"
    /\ apiCalls[2].op = "close"
    /\ ~client.authenticated

\* C25: an authenticate call that raises leaves the authenticated flag as it
\* was, false or true; a data operation made right after a failed authenticate
\* on a client that had authenticated before does not raise
\* AuthenticationError.
C25_FailedAuthenticateKeepsFlag ==
    /\ [][(/\ apiCalls' # <<>>
            /\ apiCalls'[1].op = "authenticate"
            /\ apiCalls'[1].raised # "none")
           => client'.authenticated = client.authenticated]_vars
    /\ []((/\ Len(apiCalls) = 2
           /\ apiCalls[2].op = "authenticate"
           /\ apiCalls[2].raised # "none"
           /\ apiCalls[1].op \in DataOps
           /\ authSince)
          => apiCalls[1].raised # "AuthenticationError")

C25_Witness ==
    /\ Len(apiCalls) = 2
    /\ authSince
    /\ apiCalls[2].op = "authenticate"
    /\ apiCalls[2].args.api_key = "invalid"
    /\ apiCalls[2].raised = "AuthenticationError"
    /\ apiCalls[1].op = "fetch_device_data"
    /\ apiCalls[1].raised = "none"
    /\ client.authenticated

\* C26: when the platform unload fails, async_unload_entry reports failure
\* and the registry, the client and the adapters are as before; the client of
\* a loaded entry loses its flag only in a teardown whose platform unload
\* succeeded.
C26_FailedUnloadChangesNothing ==
    /\ [][(pc = "unloading" /\ pc' = "loaded") =>
            /\ setupResult' = "unload_failed"
            /\ registry' = registry /\ registry'
            /\ client' = client
            /\ adapters' = adapters
            /\ data' = data]_vars
    /\ [][(pc \in {"loaded", "unloading"} /\ client.authenticated
              /\ ~client'.authenticated) =>
            /\ pc = "unloading" /\ pc' = "unloaded"
            /\ setupResult' = "unloaded"]_vars

C26_Witness ==
    /\ pc = "loaded"
    /\ setupResult = "unload_failed"
    /\ registry
    /\ client.authenticated
    /\ adapters # {}

\* C27: a fetch of the setup is in flight only on an authenticated client;
\* the coordinator enters hass.data only with the reply of a successful first
\* refresh stored, and the adapters are created only over a registered
\* coordinator that holds such a snapshot.
C27_SetupOrder ==
    /\ [](pc = "authenticating" => inflight = 0 /\ ~registry /\ adapters = {})
    /\ [](pc = "first_refresh" => client.authenticated /\ ~registry /\ adapters = {})
    /\ [][(~registry /\ registry') =>
            /\ pc = "first_refresh"
            /\ data' # NoData /\ data' \in EntryReplies
            /\ adapters' = {}]_vars
    /\ [][(adapters = {} /\ adapters' # {}) =>
            /\ registry
            /\ client.authenticated
            /\ lastOutcome = "ok"
            /\ data # NoData /\ data \in EntryReplies
            /\ adapters' = SensorSetup(data)]_vars

C27_Witness ==
    /\ pc = "loaded"
    /\ prevOutcome = "none"
    /\ lastOutcome = "ok"
    /\ registry
    /\ adapters = SensorSetup(data)
    /\ data \in EntryReplies

\* C22: the device info an adapter reports has name, model and firmware of
\* the current snapshot, "Example Device", "Unknown Model" and "Unknown"
\* where the snapshot lacks the field, and the identifier (domain, device id
\* of the adapter).
C22_DeviceInfoFromSnapshot ==
    \A a \in adapters :
        LET info == device_info(a.device_id, data)
        IN  /\ info.identifiers = {<<"example_integration", a.device_id>>}
            /\ info.name = IF "name" \in DOMAIN data THEN data.name
                           ELSE "Example Device"
            /\ info.model = IF "model" \in DOMAIN data THEN data.model
                            ELSE "Unknown Model"
            /\ info.sw_version = IF "firmware" \in DOMAIN data THEN data.firmware
                                 ELSE "Unknown"

C22_Witness ==
    /\ adapters # {}
    /\ prevOutcome = "ok"
    /\ lastOutcome = "ok"
    /\ \E a \in adapters :
          /\ a.device_id = "example_device_001"
          /\ device_info(a.device_id, data).name = "Test Device"
          /\ device_info(a.device_id, data).model = "Unknown Model"
          /\ device_info(a.device_id, data).sw_version = "Unknown"

\* C23: the adapters carry the device id of the snapshot the sensor setup
\* read, and while they exist no poll changes them, whatever device id the
\* later snapshots report.
C23_AdapterIdentityFixed ==
    /\ [][(adapters = {} /\ adapters' # {}) =>
            \A a \in adapters' : a.device_id = Get(data, "device_id", "unknown")]_vars
    /\ [][(adapters # {} /\ adapters' # {}) =>
            /\ adapters' = adapters
            /\ \A a \in adapters :
                  unique_id(a.device_id, a.kind) \in
                      {unique_id(b.device_id, b.kind) : b \in adapters'}]_vars

C23_Witness ==
    /\ pc = "loaded"
    /\ lastOutcome = "ok"
    /\ Get(data, "device_id", "unknown") = "test_device"
    /\ Cardinality(adapters) = 3
    /\ \A a \in adapters :
          /\ a.device_id = "example_device_001"
          /\ device_info(a.device_id, data).identifiers =
                {<<"example_integration", "example_device_001">>}

\* C24: a poll leaves the client as it is, and while the client of a set-up
\* entry is unauthenticated every refresh that settles ends as
\* ConfigEntryAuthFailed and leaves the coordinator unhealthy.
C24_UnauthenticatedStaysFailed ==
    /\ [][(pc \in {"loaded", "unloading", "unloaded"} /\ pc' = pc) =>
            client' = client]_vars
    /\ [][(/\ pc \in {"loaded", "unloading", "unloaded"}
           /\ pc' = pc
           /\ ~client.authenticated) =>
            /\ lastOutcome' = "ConfigEntryAuthFailed"
            /\ ~healthy']_vars

\* C21: a flow that creates an entry stores exactly the submitted host and
\* api_key; stored entries are never changed or removed; a set-up instance
\* works with the credentials of a stored entry, its client talks to that
\* host, and no poll or teardown changes them.
C21_CredentialsVerbatim ==
    /\ [](flowResult.type = "create_entry" =>
            /\ flowResult.data = flowTrace.input
            /\ \E x \in entries :
                  /\ x.unique_id = flowTrace.device_id
                  /\ x.data = flowTrace.input)
    /\ [][\A x \in entries : x \in entries']_vars
    /\ [](entry # NoEntry =>
            /\ \E x \in entries : x.data = entry
            /\ client.host = entry.host)
    /\ [][(entry # NoEntry /\ pc' # "authenticating") => entry' = entry]_vars

C21_Witness ==
    /\ pc = "unloaded"
    /\ prevOutcome = "ok"
    /\ lastOutcome = "UpdateFailed"
    /\ flowResult.type = "create_entry"
    /\ flowResult.data = entry
    /\ \E x \in entries : x.data = entry

\* C28: of what the validator's fetch_device_data raises only ConnectionError
\* is mapped (to CannotConnect); an AuthenticationError raised by it after
\* authenticate succeeded leaves the validator unchanged, the form is shown
\* again with unknown and not with invalid_auth, and the session is closed.
C28_FetchAuthErrorIsUnknown ==
    flowTrace.validation # "not_run" =>
        /\ flowTrace.fetch = "ConnectionError" => flowTrace.validation = "CannotConnect"
        /\ flowTrace.fetch \notin {"ok", "not_called", "ConnectionError"} =>
              /\ flowTrace.auth = "ok"
              /\ flowTrace.validation = flowTrace.fetch
              /\ FormError("unknown")
              /\ ~FormError("invalid_auth")
              /\ flowTrace.session = "closed"
              /\ scopedSession = "closed"

C28_Witness ==
    /\ flowTrace.validation = "AuthenticationError"
    /\ flowTrace.auth = "ok"
    /\ flowTrace.fetch = "AuthenticationError"
    /\ FormError("unknown")
    /\ scopedSession = "closed"

====
